---- MODULE Spec2Model ----
(***************************************************************************)
(* Solar generation estimator: MomentData (one hour's solar geometry and   *)
(* generated kW), GeneratedKw (daily / monthly / yearly summaries) and      *)
(* Calculation (daily / monthly / yearly totals over a shared MomentData).  *)
(*                                                                         *)
(* Numbers.  The program computes in binary floating point with sin, cos,   *)
(* asin, acos and **.  The model keeps every comparison, branch, clamp,     *)
(* product and sum of the code, over integers; a sum is rounded to          *)
(* MantissaBits significant bits, as a float sum is to 53 (float_add).      *)
(* The results of the transcendental functions at one (day, hour) are an    *)
(* input, a "sky" record:                                                   *)
(*    asin_ok    the argument of math.asin lies in [-1, 1]                  *)
(*    ev         the elevation angle, in 1e-5 degrees                       *)
(*    eot        the equation of time, in minutes                           *)
(*    az_base    azimuth_base, in degrees                                   *)
(*    s_incident the incident irradiance                                    *)
(*    fraction   the module-plane fraction (may be negative)                *)
(* A "world" gives the sky of every (day, hour): it stands for latitude,    *)
(* module_azimuth, module_tilt and the math library.                        *)
(***************************************************************************)
EXTENDS Integers, Sequences, FiniteSets

VARIABLES last, moment_data

vars == <<last, moment_data>>

(* ------------------------------ bounds -------------------------------- *)

\* a table of skies repeats every DayPeriod days and every HourPeriod hours
DayPeriod == 2
HourPeriod == 3
\* the largest incident irradiance of a sky
MaxIrr == 2
\* the largest valid efficiency constant tried
MaxEff == 2
\* the sampled tables are Stride apart in the enumeration of all tables
Stride == 89
\* the number of sites the daily, the monthly / yearly and the Calculation
\* operations are tried on
MaxDailySites == 150
MaxAggSites == 12
MaxCalcSites == 2
\* the bits of a float's significand (53 in the program's doubles)
MantissaBits == 8

(* ------------------------- program constants --------------------------- *)

HoursPerDay == 24
MonthsPerYear == 12
DaysPerYear == 365
NoonHour == 12
FullCircle == 360
\* 90 degrees and 96.07995 degrees, in 1e-5 degrees
RightAngle == 9000000
ZenithSingular == 9607995

days_in_month ==
    [m \in 1..12 |->
        CASE m \in {4, 6, 9, 11} -> 30
          [] m = 2 -> 28
          [] OTHER -> 31]

(* ------------------------------- skies -------------------------------- *)

\* the sun far below the horizon: zenith 120 degrees
Night == [asin_ok |-> TRUE, ev |-> -3000000, eot |-> 0, az_base |-> 90,
          s_incident |-> 1, fraction |-> 1]

\* the sun at 30 degrees, with the given irradiance and fraction
Day(s, f) == [asin_ok |-> TRUE, ev |-> 3000000, eot |-> 0, az_base |-> 180,
              s_incident |-> s, fraction |-> f]

\* the argument of asin outside [-1, 1]
AsinOut == [Night EXCEPT !.asin_ok = FALSE]

\* the skies a table is made of
SkyList == <<Night, Day(1, 1), Day(MaxIrr, 1), Day(1, -1), AsinOut>>

\* the skies of a single moment
AllSkies ==
    [asin_ok : BOOLEAN,
     ev : {-3000000, RightAngle - ZenithSingular, 3000000, RightAngle},
     eot : {-4, 0, 4},
     az_base : {0, 90, 180},
     s_incident : {1, MaxIrr},
     fraction : -1..1]

Tiles == (0..(DayPeriod - 1)) \X (0..(HourPeriod - 1))

RECURSIVE Pow(_, _)
Pow(b, e) == IF e = 0 THEN 1 ELSE b * Pow(b, e - 1)

NumTables == Pow(Len(SkyList), DayPeriod * HourPeriod)

\* the n-th table: the sky of tile <<i, j>> is digit i * HourPeriod + j of n
TableOf(n) ==
    [t \in Tiles |->
        SkyList[((n \div Pow(Len(SkyList), t[1] * HourPeriod + t[2])) % Len(SkyList)) + 1]]

\* polar night: during days dark[1]..dark[2] every hour is Night
DarkSeasons == <<<<1, 0>>, <<1, 45>>, <<320, 365>>>>

\* a world: the sky of every (day, hour)
SkyOf(w, day, hour) ==
    IF w.dark[1] <= day /\ day <= w.dark[2] THEN Night
    ELSE w.tab[<<day % DayPeriod, hour % HourPeriod>>]

\* the k-th sampled site: the parameters of a call other than day, hour, month
EffOf(k) ==
    LET r == k % 8
    IN  IF r = 3 THEN -1 ELSE IF r = 6 THEN 0 ELSE 1 + (r % MaxEff)

Site(k) ==
    [w |-> [tab |-> TableOf((k * Stride) % NumTables),
            dark |-> DarkSeasons[(k % Len(DarkSeasons)) + 1]],
     gmt |-> 2, longitude |-> 27, numeric |-> TRUE, constant_eff |-> EffOf(k)]

\* a parameter that is not a number (a string)
Malformed(s) == [s EXCEPT !.numeric = FALSE]

DailySites == {Site(k) : k \in 1..MaxDailySites} \cup {Malformed(Site(1))}
AggSites == {Site(k) : k \in 1..MaxAggSites} \cup {Malformed(Site(1))}

\* the site of data.py's base object, built at hour 13 of day 1 in daylight
CalcSite(k) ==
    [Site(k) EXCEPT !.w.dark = <<320, 365>>,
                    !.w.tab[<<1 % DayPeriod, 13 % HourPeriod>>] = Day(1, 1)]

CalcSites == {CalcSite(k) : k \in 1..MaxCalcSites}

(* ----------------------------- MomentData ------------------------------ *)

Raise(e) == [kind |-> "raise", exc |-> e]

Max(a, b) == IF a >= b THEN a ELSE b

RECURSIVE Ulp(_)
\* the spacing of the floats around x >= 0: 1 below 2^MantissaBits, doubling
\* with every further binary digit
Ulp(x) == IF x < Pow(2, MantissaBits) THEN 1 ELSE 2 * Ulp(x \div 2)

\* x >= 0 rounded to the nearest float, a tie to the even significand
RoundNat(x) ==
    LET u == Ulp(x)
        q == x \div u
        r == x % u
    IN  IF 2 * r < u THEN q * u
        ELSE IF 2 * r > u THEN (q + 1) * u
        ELSE IF q % 2 = 0 THEN q * u ELSE (q + 1) * u

Round(x) == IF x >= 0 THEN RoundNat(x) ELSE 0 - RoundNat(0 - x)

\* a + b, a += b of two floats: the exact sum, rounded
float_add(a, b) == Round(a + b)

\* MomentData.__init__: the moment, or the exception it raises.
\* hra4 is the hour angle in quarter degrees:
\*   hra = 15 * (hour + (4 * (longitude - 15 * gmt) + eot) / 60 - 12)
\* A parameter that is not a number raises TypeError in the arithmetic; asin
\* raises ValueError outside [-1, 1]; the division by cos(ev_ang) and
\* 0.0 ** -1.6364 raise ZeroDivisionError; a negative base of ** -1.6364
\* gives a complex air_mass, s_incident and product, and max(0, complex)
\* raises TypeError.
\* if self.hra > 0: az_ang = 360 - azimuth_base, else: az_ang = azimuth_base
\* mutant: hour angle 0 takes the afternoon branch (>= for >)
az_ang_of_ge(hra4, azimuth_base) ==
    IF hra4 >= 0 THEN FullCircle - azimuth_base ELSE azimuth_base

az_ang_of(hra4, azimuth_base) ==
    IF hra4 > 0 THEN FullCircle - azimuth_base ELSE azimuth_base

\* mutant: the product without the floor
s_module_unclamped(s_incident, fraction) == s_incident * fraction

\* s_module = max(0, s_incident * fraction)
s_module_of(s_incident, fraction) == Max(0, s_incident * fraction)

MomentData(day, gmt, hour, longitude, w, numeric, constant_eff) ==
    LET sky == SkyOf(w, day, hour)
        lstm == 15 * gmt
        tc == 4 * (longitude - lstm) + sky.eot
        hra4 == 60 * (hour - NoonHour) + tc
        zenith_ang == RightAngle - sky.ev
        az_ang == az_ang_of(hra4, sky.az_base)
        s_module == s_module_of(sky.s_incident, sky.fraction)
    IN  IF ~numeric THEN Raise("TypeError")
        ELSE IF ~sky.asin_ok THEN Raise("ValueError")
        ELSE IF sky.ev = RightAngle \/ sky.ev = -RightAngle
        THEN Raise("ZeroDivisionError")
        ELSE IF zenith_ang = ZenithSingular THEN Raise("ZeroDivisionError")
        ELSE IF zenith_ang > ZenithSingular THEN Raise("TypeError")
        ELSE [kind |-> "ok", day |-> day, gmt |-> gmt, hour |-> hour,
              longitude |-> longitude, w |-> w, numeric |-> numeric,
              constant_eff |-> constant_eff,
              hra4 |-> hra4, zenith_ang |-> zenith_ang,
              azimuth_base |-> sky.az_base, az_ang |-> az_ang,
              azi_ang_mor |-> sky.az_base,
              az_ang_past12 |-> FullCircle - sky.az_base,
              s_module |-> s_module,
              generated_kw |-> s_module * constant_eff]

(* --------------------------- GeneratedKw ------------------------------- *)

\* A for loop over lo..hi-1 is the composition of its iterations in ascending
\* order; the (xxx)_loop operators run the iterations lo..hi-1 from the
\* accumulator acc, first those below the midpoint and then the others.
\* A value that is computed once and read several times (a loop's accumulator,
\* the result of a call) is bound by  CHOOSE r \in {F(x) : x \in {e}} : TRUE,
\* which is F(e) with e evaluated once.

day_dict0(day) ==
    [Day |-> day, TotalKw |-> 0, MaxKw |-> 0, HourMax |-> 0,
     Hours |-> <<>>, Fraction |-> <<0, 1>>]

\* one iteration of the hour loop of daily_kw (the try body, and except: continue)
\* mutant: a failed hour zeroes the day
daily_update_reset(dd, i, data) ==
    IF data.kind = "raise" THEN day_dict0(dd.Day)
    ELSE [dd EXCEPT
            !.MaxKw = IF data.generated_kw > dd.MaxKw THEN data.generated_kw ELSE @,
            !.HourMax = IF data.generated_kw > dd.MaxKw THEN i ELSE @,
            !.Hours = IF data.generated_kw > 0 THEN Append(@, i) ELSE @,
            !.TotalKw = float_add(@, data.generated_kw)]

\* mutant: an hour of 0 kW is listed (>= for >)
daily_update_ge(dd, i, data) ==
    IF data.kind = "raise" THEN dd
    ELSE [dd EXCEPT
            !.MaxKw = IF data.generated_kw > dd.MaxKw THEN data.generated_kw ELSE @,
            !.HourMax = IF data.generated_kw > dd.MaxKw THEN i ELSE @,
            !.Hours = IF data.generated_kw >= 0 THEN Append(@, i) ELSE @,
            !.TotalKw = float_add(@, data.generated_kw)]

\* mutant: a tie replaces the hour of maximum (>= for >)
daily_update_maxge(dd, i, data) ==
    IF data.kind = "raise" THEN dd
    ELSE [dd EXCEPT
            !.MaxKw = IF data.generated_kw >= dd.MaxKw THEN data.generated_kw ELSE @,
            !.HourMax = IF data.generated_kw >= dd.MaxKw THEN i ELSE @,
            !.Hours = IF data.generated_kw > 0 THEN Append(@, i) ELSE @,
            !.TotalKw = float_add(@, data.generated_kw)]

daily_update(dd, i, data) ==
    IF data.kind = "raise" THEN dd
    ELSE [dd EXCEPT
            !.MaxKw = IF data.generated_kw > dd.MaxKw THEN data.generated_kw ELSE @,
            !.HourMax = IF data.generated_kw > dd.MaxKw THEN i ELSE @,
            !.Hours = IF data.generated_kw > 0 THEN Append(@, i) ELSE @,
            !.TotalKw = float_add(@, data.generated_kw)]

daily_step(dd, i, day, s) ==
    CHOOSE r \in {daily_update(dd, i, data) :
                    data \in {MomentData(day, s.gmt, i, s.longitude, s.w,
                                         s.numeric, s.constant_eff)}} : TRUE

RECURSIVE daily_loop(_, _, _, _, _)
daily_loop(acc, lo, hi, day, s) ==
    IF lo >= hi THEN acc
    ELSE IF hi = lo + 1 THEN daily_step(acc, lo, day, s)
    ELSE LET mid == (lo + hi) \div 2
         IN  CHOOSE r \in {daily_loop(a, mid, hi, day, s) :
                              a \in {daily_loop(acc, lo, mid, day, s)}} : TRUE

\* GeneratedKw.daily_kw
daily_kw(day, s) ==
    CHOOSE r \in {[dd EXCEPT !.Fraction = <<Len(dd.Hours), HoursPerDay>>] :
                    dd \in {daily_loop(day_dict0(day), 0, HoursPerDay, day, s)}} : TRUE

month_data0(month) ==
    [kind |-> "ok", Month |-> month, TotalDays |-> days_in_month[month],
     TotalKw |-> 0, BestDay |-> [Day |-> 0, Kw |-> 0],
     BestHour |-> [Day |-> 0, Hour |-> 0, Kw |-> 0], Average |-> <<0, 1>>]

RECURSIVE SumDays(_)
\* sum(days_in_month[m] for m in range(1, month))
SumDays(month) == IF month <= 1 THEN 0 ELSE SumDays(month - 1) + days_in_month[month - 1]

\* mutant: the month itself is counted in the offset (range(1, month + 1))
base_day_of_year_incl(month) == SumDays(month + 1)

base_day_of_year(month) == SumDays(month)

\* the days of the year that the loop of monthly_kw passes to daily_kw, in
\* the order of the calls
monthly_days(month) ==
    [d \in 1..days_in_month[month] |-> base_day_of_year(month) + d]

RECURSIVE days_upto(_)
\* the days that yearly_kw has passed to daily_kw after the first m months
days_upto(m) == IF m = 0 THEN <<>> ELSE days_upto(m - 1) \o monthly_days(m)

yearly_days == days_upto(MonthsPerYear)

\* the days that the loop of calc_year passes to Calculation.daily_kw
calc_year_days == [d \in 1..DaysPerYear |-> d]

\* one iteration of the day loop of monthly_kw
\* mutant: the day's maximum is added to the month's total
monthly_update_addmax(md, d, daily_data) ==
    [md EXCEPT
       !.TotalKw = float_add(@, daily_data.MaxKw),
       !.BestDay = IF daily_data.TotalKw > md.BestDay.Kw
                   THEN [Day |-> d, Kw |-> daily_data.TotalKw]
                   ELSE @,
       !.BestHour = IF daily_data.MaxKw > md.BestHour.Kw
                    THEN [Day |-> d, Hour |-> daily_data.HourMax,
                          Kw |-> daily_data.MaxKw]
                    ELSE @]

\* mutant: a tie replaces the best day (>= for >)
monthly_update_ge(md, d, daily_data) ==
    [md EXCEPT
       !.TotalKw = float_add(@, daily_data.TotalKw),
       !.BestDay = IF daily_data.TotalKw >= md.BestDay.Kw
                   THEN [Day |-> d, Kw |-> daily_data.TotalKw]
                   ELSE @,
       !.BestHour = IF daily_data.MaxKw > md.BestHour.Kw
                    THEN [Day |-> d, Hour |-> daily_data.HourMax,
                          Kw |-> daily_data.MaxKw]
                    ELSE @]

monthly_update(md, d, daily_data) ==
    [md EXCEPT
       !.TotalKw = float_add(@, daily_data.TotalKw),
       !.BestDay = IF daily_data.TotalKw > md.BestDay.Kw
                   THEN [Day |-> d, Kw |-> daily_data.TotalKw]
                   ELSE @,
       !.BestHour = IF daily_data.MaxKw > md.BestHour.Kw
                    THEN [Day |-> d, Hour |-> daily_data.HourMax,
                          Kw |-> daily_data.MaxKw]
                    ELSE @]

monthly_step(md, d, month, s) ==
    CHOOSE r \in {monthly_update(md, d, daily_data) :
                    daily_data \in {daily_kw(base_day_of_year(month) + d, s)}} : TRUE

RECURSIVE monthly_loop(_, _, _, _, _)
monthly_loop(acc, lo, hi, month, s) ==
    IF lo >= hi THEN acc
    ELSE IF hi = lo + 1 THEN monthly_step(acc, lo, month, s)
    ELSE LET mid == (lo + hi) \div 2
         IN  CHOOSE r \in {monthly_loop(a, mid, hi, month, s) :
                              a \in {monthly_loop(acc, lo, mid, month, s)}} : TRUE

\* GeneratedKw.monthly_kw
monthly_kw(s, month) ==
    IF month \notin DOMAIN days_in_month THEN Raise("KeyError")
    ELSE CHOOSE r \in {[md EXCEPT !.Average = <<md.TotalKw, days_in_month[month]>>] :
                         md \in {monthly_loop(month_data0(month), 1,
                                              days_in_month[month] + 1, month, s)}} : TRUE

year_data0 ==
    [TotalKw |-> 0, BestMonth |-> [Month |-> 0, Kw |-> 0],
     BestDay |-> [Month |-> 0, Day |-> 0, Kw |-> 0],
     BestHour |-> [Month |-> 0, Day |-> 0, Hour |-> 0, Kw |-> 0],
     AverageDaily |-> <<0, 1>>, AverageMonthly |-> <<0, 1>>]

\* one iteration of the month loop of yearly_kw
\* mutant: the best day keeps the month of the running best
yearly_update_nomonth(yd, month, monthly_data) ==
    [yd EXCEPT
       !.TotalKw = float_add(@, monthly_data.TotalKw),
       !.BestMonth = IF monthly_data.TotalKw > yd.BestMonth.Kw
                     THEN [Month |-> month, Kw |-> monthly_data.TotalKw]
                     ELSE @,
       !.BestDay = IF monthly_data.BestDay.Kw > yd.BestDay.Kw
                   THEN [Month |-> yd.BestDay.Month, Day |-> monthly_data.BestDay.Day,
                         Kw |-> monthly_data.BestDay.Kw]
                   ELSE @,
       !.BestHour = IF monthly_data.BestHour.Kw > yd.BestHour.Kw
                    THEN [Month |-> month, Day |-> monthly_data.BestHour.Day,
                          Hour |-> monthly_data.BestHour.Hour,
                          Kw |-> monthly_data.BestHour.Kw]
                    ELSE @]

\* mutant: a tie replaces the best records (>= for >)
yearly_update_ge(yd, month, monthly_data) ==
    [yd EXCEPT
       !.TotalKw = float_add(@, monthly_data.TotalKw),
       !.BestMonth = IF monthly_data.TotalKw >= yd.BestMonth.Kw
                     THEN [Month |-> month, Kw |-> monthly_data.TotalKw]
                     ELSE @,
       !.BestDay = IF monthly_data.BestDay.Kw >= yd.BestDay.Kw
                   THEN [Month |-> month, Day |-> monthly_data.BestDay.Day,
                         Kw |-> monthly_data.BestDay.Kw]
                   ELSE @,
       !.BestHour = IF monthly_data.BestHour.Kw >= yd.BestHour.Kw
                    THEN [Month |-> month, Day |-> monthly_data.BestHour.Day,
                          Hour |-> monthly_data.BestHour.Hour,
                          Kw |-> monthly_data.BestHour.Kw]
                    ELSE @]

yearly_update(yd, month, monthly_data) ==
    [yd EXCEPT
       !.TotalKw = float_add(@, monthly_data.TotalKw),
       !.BestMonth = IF monthly_data.TotalKw > yd.BestMonth.Kw
                     THEN [Month |-> month, Kw |-> monthly_data.TotalKw]
                     ELSE @,
       !.BestDay = IF monthly_data.BestDay.Kw > yd.BestDay.Kw
                   THEN [Month |-> month, Day |-> monthly_data.BestDay.Day,
                         Kw |-> monthly_data.BestDay.Kw]
                   ELSE @,
       !.BestHour = IF monthly_data.BestHour.Kw > yd.BestHour.Kw
                    THEN [Month |-> month, Day |-> monthly_data.BestHour.Day,
                          Hour |-> monthly_data.BestHour.Hour,
                          Kw |-> monthly_data.BestHour.Kw]
                    ELSE @]

yearly_step(yd, month, s) ==
    CHOOSE r \in {yearly_update(yd, month, monthly_data) :
                    monthly_data \in {monthly_kw(s, month)}} : TRUE

RECURSIVE yearly_loop(_, _, _, _)
yearly_loop(acc, lo, hi, s) ==
    IF lo >= hi THEN acc
    ELSE IF hi = lo + 1 THEN yearly_step(acc, lo, s)
    ELSE LET mid == (lo + hi) \div 2
         IN  CHOOSE r \in {yearly_loop(a, mid, hi, s) :
                              a \in {yearly_loop(acc, lo, mid, s)}} : TRUE

\* GeneratedKw.yearly_kw
yearly_kw(s) ==
    CHOOSE r \in {[yd EXCEPT !.AverageDaily = <<yd.TotalKw, DaysPerYear>>,
                             !.AverageMonthly = <<yd.TotalKw, MonthsPerYear>>] :
                    yd \in {yearly_loop(year_data0, 1, MonthsPerYear + 1, s)}} : TRUE

(* ----------------------------- Calculation ----------------------------- *)

\* one iteration of the hour loop of Calculation.daily_kw
calc_daily_update(sum_kw, data) ==
    IF data.kind = "raise" THEN sum_kw ELSE float_add(sum_kw, data.generated_kw)

calc_daily_step(sum_kw, i, m) ==
    CHOOSE r \in {calc_daily_update(sum_kw, data) :
                    data \in {MomentData(m.day, m.gmt, i, m.longitude, m.w,
                                         m.numeric, m.constant_eff)}} : TRUE

RECURSIVE calc_daily_loop(_, _, _, _)
calc_daily_loop(acc, lo, hi, m) ==
    IF lo >= hi THEN acc
    ELSE IF hi = lo + 1 THEN calc_daily_step(acc, lo, m)
    ELSE LET mid == (lo + hi) \div 2
         IN  CHOOSE r \in {calc_daily_loop(a, mid, hi, m) :
                              a \in {calc_daily_loop(acc, lo, mid, m)}} : TRUE

\* Calculation.daily_kw
calc_daily_kw(m) == calc_daily_loop(0, 0, HoursPerDay, m)

\* one iteration of a day loop of calc_month (base: base_day_of_year) and of
\* calc_year (base: 0); acc is the shared moment_data and total_kw
calc_day_step(acc, d, base) ==
    [moment_data |-> [acc.moment_data EXCEPT !.day = base + d],
     total_kw |-> float_add(acc.total_kw,
                            calc_daily_kw([acc.moment_data EXCEPT !.day = base + d]))]

RECURSIVE calc_day_loop(_, _, _, _)
calc_day_loop(acc, lo, hi, base) ==
    IF lo >= hi THEN acc
    ELSE IF hi = lo + 1 THEN calc_day_step(acc, lo, base)
    ELSE LET mid == (lo + hi) \div 2
         IN  CHOOSE r \in {calc_day_loop(a, mid, hi, base) :
                              a \in {calc_day_loop(acc, lo, mid, base)}} : TRUE

\* Calculation.calc_month: the total, and moment_data as the call leaves it
calc_month(m, month) ==
    IF month \notin DOMAIN days_in_month
    THEN [kind |-> "raise", exc |-> "KeyError", moment_data |-> m]
    ELSE CHOOSE x \in {[kind |-> "ok", total_kw |-> r.total_kw,
                        moment_data |-> r.moment_data] :
                         r \in {calc_day_loop([moment_data |-> m, total_kw |-> 0], 1,
                                              days_in_month[month] + 1,
                                              base_day_of_year(month))}} : TRUE

\* Calculation.calc_year
calc_year(m) ==
    CHOOSE x \in {[kind |-> "ok", total_kw |-> r.total_kw,
                   moment_data |-> r.moment_data] :
                    r \in {calc_day_loop([moment_data |-> m, total_kw |-> 0], 1,
                                         DaysPerYear + 1, 0)}} : TRUE

(* ------------------------------ actions -------------------------------- *)

\* last: the call made last and its outcome, until it is printed.
\* moment_data: the base object of data.py (lines 231-240), which the
\* Calculation methods are given; NoObject while the classes of src/classes
\* are exercised.

Idle == [op |-> "none"]
NoObject == [kind |-> "none"]

\* data = MomentData(day=1, gmt=2, hour=13, ...)
BaseObject(s) == MomentData(1, s.gmt, 13, s.longitude, s.w, s.numeric, s.constant_eff)

Init ==
    /\ last = Idle
    /\ moment_data \in {NoObject} \cup {BaseObject(s) : s \in CalcSites}
    /\ moment_data.kind # "raise"

\* a single MomentData(...) (moment_data.py:127, data.py:231)
NewMomentData ==
    /\ last = Idle
    /\ moment_data = NoObject
    /\ \E sky \in AllSkies, hour \in {11, 12, 13}, longitude \in {27, 30, 31},
          ce \in {-1, 0, MaxEff}, numeric \in BOOLEAN :
         \E r \in {MomentData(1, 2, hour, longitude,
                              [tab |-> [t \in Tiles |-> sky], dark |-> <<1, 0>>],
                              numeric, ce)} :
            last' = [op |-> "MomentData", sky |-> sky, hour |-> hour,
                     longitude |-> longitude, constant_eff |-> ce,
                     numeric |-> numeric, kind |-> r.kind, out |-> r]
    /\ UNCHANGED moment_data

\* GeneratedKw().daily_kw(day, ...)
DailyKw ==
    /\ last = Idle
    /\ moment_data = NoObject
    /\ \E day \in {0, 1, 2, 3, 45, 46, DaysPerYear, DaysPerYear + 1}, s \in DailySites :
            last' = [op |-> "daily_kw", day |-> day, site |-> s,
                     kind |-> "ok", out |-> daily_kw(day, s)]
    /\ UNCHANGED moment_data

\* GeneratedKw().monthly_kw(..., month)
MonthlyKw ==
    /\ last = Idle
    /\ moment_data = NoObject
    /\ \E month \in 0..(MonthsPerYear + 1), s \in AggSites :
         \E r \in {monthly_kw(s, month)} :
            last' = [op |-> "monthly_kw", month |-> month, site |-> s,
                     kind |-> r.kind, out |-> r]
    /\ UNCHANGED moment_data

\* GeneratedKw().yearly_kw(...)
YearlyKw ==
    /\ last = Idle
    /\ moment_data = NoObject
    /\ \E s \in AggSites :
            last' = [op |-> "yearly_kw", site |-> s, kind |-> "ok", out |-> yearly_kw(s)]
    /\ UNCHANGED moment_data

\* GeneratedKw().formatted_print(data): the summary is printed and dropped
FormattedPrint ==
    /\ last.op \in {"MomentData", "daily_kw", "monthly_kw", "yearly_kw"}
    /\ last' = Idle
    /\ UNCHANGED moment_data

\* calc.daily_kw(data)
CalcDaily ==
    /\ last = Idle /\ moment_data # NoObject
    /\ last' = [op |-> "calc_daily_kw", before |-> moment_data, kind |-> "ok",
                out |-> calc_daily_kw(moment_data)]
    /\ UNCHANGED moment_data

\* calc.calc_month(data, month)
CalcMonth ==
    /\ last = Idle
    /\ moment_data # NoObject
    /\ \E month \in 0..(MonthsPerYear + 1) :
         \E r \in {calc_month(moment_data, month)} :
            /\ last' = [op |-> "calc_month", month |-> month,
                        before |-> moment_data, kind |-> r.kind,
                        out |-> IF r.kind = "ok" THEN r.total_kw ELSE 0]
            /\ moment_data' = r.moment_data

\* calc.calc_year(data)
CalcYear ==
    /\ last = Idle /\ moment_data # NoObject
    /\ \E r \in {calc_year(moment_data)} :
          /\ last' = [op |-> "calc_year", before |-> moment_data, kind |-> "ok",
                      out |-> r.total_kw]
          /\ moment_data' = r.moment_data

\* print(f"Total energy generated ...") (data.py:246-257)
PrintTotal ==
    /\ last.op \in {"calc_daily_kw", "calc_month", "calc_year"}
    /\ last' = Idle
    /\ UNCHANGED moment_data

Next ==
    \/ NewMomentData
    \/ DailyKw
    \/ MonthlyKw
    \/ YearlyKw
    \/ FormattedPrint
    \/ CalcDaily
    \/ CalcMonth
    \/ CalcYear
    \/ PrintTotal

Spec == Init /\ [][Next]_vars

(* ------------------------ reference definitions ------------------------ *)

HourRange == 0..(HoursPerDay - 1)

\* the outcome of the moment computation at hour i of a day
HourOut(day, s, i) ==
    MomentData(day, s.gmt, i, s.longitude, s.w, s.numeric, s.constant_eff)

\* the non-leap calendar: the day-of-year before the first day of each month
CumDays == <<0, 31, 59, 90, 120, 151, 181, 212, 243, 273, 304, 334, 365>>

\* the day-of-year of calendar day d of month m
DayOfYear(m, d) == CumDays[m] + d

DaysIn(m) == 1..(CumDays[m + 1] - CumDays[m])

RECURSIVE AddFrom(_, _, _, _)
\* acc + f[lo] + ... + f[hi], added from the left as floats
AddFrom(acc, f, lo, hi) ==
    IF lo > hi THEN acc
    ELSE IF lo = hi THEN float_add(acc, f[lo])
    ELSE CHOOSE r \in {AddFrom(a, f, ((lo + hi) \div 2) + 1, hi) :
                          a \in {AddFrom(acc, f, lo, (lo + hi) \div 2)}} : TRUE

\* f[lo] + ... + f[hi], added in this order as floats
SumFn(f, lo, hi) == AddFrom(0, f, lo, hi)

\* the largest value of f on the non-empty set S
MaxFn(f, S) == CHOOSE v \in {f[x] : x \in S} : \A y \in S : f[y] <= v

\* the smallest element of the non-empty set of integers S
MinOf(S) == CHOOSE x \in S : \A y \in S : x <= y

SeqSet(q) == {q[k] : k \in 1..Len(q)}

Ascending(q) == \A k \in 1..(Len(q) - 1) : q[k] < q[k + 1]

ValidSite(s) == s.numeric /\ s.constant_eff >= 0

(* ------------------------------- claims -------------------------------- *)

\* C1  Additivity: the total of monthly_kw(m) is the sum of the totals of
\* daily_kw over the days of month m, and the total of yearly_kw is the sum
\* of the totals of the twelve monthly_kw, whatever the hours' outcomes.
C1_Additivity ==
    /\ (last.op = "monthly_kw" /\ last.kind = "ok") =>
          last.out.TotalKw =
             SumFn([d \in DaysIn(last.month) |->
                       daily_kw(DayOfYear(last.month, d), last.site).TotalKw],
                   1, CumDays[last.month + 1] - CumDays[last.month])
    /\ last.op = "yearly_kw" =>
          last.out.TotalKw =
             SumFn([m \in 1..MonthsPerYear |-> monthly_kw(last.site, m).TotalKw],
                   1, MonthsPerYear)

\* a month after January whose days differ: the best day is not the first
C1_Witness ==
    /\ last.op = "monthly_kw"
    /\ last.kind = "ok"
    /\ last.month >= 2
    /\ last.out.TotalKw > 0
    /\ last.out.BestDay.Day > 1

\* C2  Domain-error containment: daily_kw returns a summary whatever hours
\* fail (ValueError, ZeroDivisionError, as any other exception of the hour);
\* a failed hour is not in the list of hours, is the hour of maximum only as
\* the untouched initial 0 of a day without maximum, and the day's total is
\* the sum of the values of the hours that did not fail.
C2_DomainErrorContainment ==
    last.op = "daily_kw" =>
       \A out \in {[i \in HourRange |-> HourOut(last.day, last.site, i)]} :
          /\ last.kind = "ok"
          /\ last.out.TotalKw =
                SumFn([i \in HourRange |->
                          IF out[i].kind = "ok" THEN out[i].generated_kw ELSE 0],
                      0, HoursPerDay - 1)
          /\ \A i \in HourRange :
                out[i].kind = "raise" =>
                   /\ i \notin SeqSet(last.out.Hours)
                   /\ last.out.HourMax = i => (i = 0 /\ last.out.MaxKw = 0)

\* a domain error between two hours that generate
C2_Witness ==
    /\ last.op = "daily_kw"
    /\ \E i, j, k \in HourRange :
          /\ i < j /\ j < k
          /\ HourOut(last.day, last.site, j).kind = "raise"
          /\ HourOut(last.day, last.site, j).exc = "ValueError"
          /\ i \in SeqSet(last.out.Hours)
          /\ k \in SeqSet(last.out.Hours)

\* C3 as stated: after the day loop Best Day.Kw is the largest daily total of
\* the month and Best Day.Day is the day-of-month, in 1..days_in_month, of the
\* earliest day with that total.
C3_BestDayIsEarliestMax ==
    (last.op = "monthly_kw" /\ last.kind = "ok" /\ ValidSite(last.site)) =>
       \A t \in {[d \in DaysIn(last.month) |->
                    daily_kw(DayOfYear(last.month, d), last.site).TotalKw]} :
          /\ last.out.BestDay.Kw = MaxFn(t, DaysIn(last.month))
          /\ last.out.BestDay.Day \in DaysIn(last.month)
          /\ last.out.BestDay.Day =
                MinOf({d \in DaysIn(last.month) : t[d] = MaxFn(t, DaysIn(last.month))})

\* C3 amended: when some day of the month has a positive total, Best Day.Kw
\* is the largest daily total and Best Day.Day the day-of-month of the earliest
\* day with that total (a tie keeps the earlier day); when no day has a
\* positive total, Best Day keeps its initial value, Day 0 and Kw 0.
C3_BestDayIsEarliestPositiveMax ==
    (last.op = "monthly_kw" /\ last.kind = "ok") =>
       \A t \in {[d \in DaysIn(last.month) |->
                    daily_kw(DayOfYear(last.month, d), last.site).TotalKw]} :
          IF MaxFn(t, DaysIn(last.month)) > 0
          THEN /\ last.out.BestDay.Kw = MaxFn(t, DaysIn(last.month))
               /\ last.out.BestDay.Day =
                     MinOf({d \in DaysIn(last.month) :
                              t[d] = MaxFn(t, DaysIn(last.month))})
          ELSE last.out.BestDay = [Day |-> 0, Kw |-> 0]

\* two days of a month after January tie at the positive maximum, after a
\* day with a smaller total
C3_Witness ==
    /\ last.op = "monthly_kw"
    /\ last.kind = "ok"
    /\ last.month >= 2
    /\ last.out.BestDay.Day > 1
    /\ \E d \in DaysIn(last.month) :
          /\ d > last.out.BestDay.Day
          /\ daily_kw(DayOfYear(last.month, d), last.site).TotalKw = last.out.BestDay.Kw

NonNegDay(dd) == dd.TotalKw >= 0 /\ dd.MaxKw >= 0

NonNegMonth(md) ==
    /\ md.TotalKw >= 0 /\ md.BestDay.Kw >= 0 /\ md.BestHour.Kw >= 0
    /\ md.Average[1] >= 0 /\ md.Average[2] > 0

NonNegYear(yd) ==
    /\ yd.TotalKw >= 0 /\ yd.BestMonth.Kw >= 0
    /\ yd.BestDay.Kw >= 0 /\ yd.BestHour.Kw >= 0
    /\ yd.AverageDaily[1] >= 0 /\ yd.AverageDaily[2] > 0
    /\ yd.AverageMonthly[1] >= 0 /\ yd.AverageMonthly[2] > 0

RECURSIVE DailyStepsNonNeg(_, _, _, _)
\* NonNegDay holds of dd and after each of the iterations i..23 from dd
DailyStepsNonNeg(dd, i, day, s) ==
    /\ NonNegDay(dd)
    /\ i < HoursPerDay =>
          \A nx \in {daily_step(dd, i, day, s)} : DailyStepsNonNeg(nx, i + 1, day, s)

RECURSIVE MonthlyStepsNonNeg(_, _, _, _)
MonthlyStepsNonNeg(md, d, month, s) ==
    /\ NonNegMonth(md)
    /\ d <= days_in_month[month] =>
          \A nx \in {monthly_step(md, d, month, s)} :
             MonthlyStepsNonNeg(nx, d + 1, month, s)

RECURSIVE YearlyStepsNonNeg(_, _, _)
YearlyStepsNonNeg(yd, month, s) ==
    /\ NonNegYear(yd)
    /\ month <= MonthsPerYear =>
          \A nx \in {yearly_step(yd, month, s)} : YearlyStepsNonNeg(nx, month + 1, s)

\* C4  Non-negativity: with an efficiency constant >= 0, a moment that is
\* computed has s_module >= 0 and generated_kw >= 0, and every Kw field of
\* the daily, monthly and yearly summaries is >= 0 initially, after each
\* iteration of the loops, and in the summary returned.
C4_NonNegativity ==
    /\ (last.op = "MomentData" /\ last.kind = "ok" /\ last.constant_eff >= 0) =>
          last.out.s_module >= 0 /\ last.out.generated_kw >= 0
    /\ (last.op = "daily_kw" /\ last.site.constant_eff >= 0) =>
          /\ \A i \in HourRange :
                \A o \in {HourOut(last.day, last.site, i)} :
                   o.kind = "ok" => o.s_module >= 0 /\ o.generated_kw >= 0
          /\ DailyStepsNonNeg(day_dict0(last.day), 0, last.day, last.site)
          /\ NonNegDay(last.out)
    /\ (last.op = "monthly_kw" /\ last.kind = "ok" /\ last.site.constant_eff >= 0) =>
          /\ MonthlyStepsNonNeg(month_data0(last.month), 1, last.month, last.site)
          /\ NonNegMonth(last.out)
    /\ (last.op = "yearly_kw" /\ last.site.constant_eff >= 0) =>
          /\ YearlyStepsNonNeg(year_data0, 1, last.site)
          /\ NonNegYear(last.out)

\* a moment whose fraction is negative: the product is clamped to 0
C4_Witness ==
    /\ last.op = "MomentData"
    /\ last.kind = "ok"
    /\ last.constant_eff > 0
    /\ last.sky.fraction < 0
    /\ last.out.s_module = 0

\* C5  Active hours: the list of hours returned by daily_kw is strictly
\* ascending and holds exactly the hours of 0..23 whose moment was computed
\* with generated_kw > 0, and the fraction returned is the length of the
\* list over 24.
C5_ActiveHours ==
    last.op = "daily_kw" =>
       /\ Ascending(last.out.Hours)
       /\ SeqSet(last.out.Hours) =
             {i \in HourRange :
                \E o \in {HourOut(last.day, last.site, i)} :
                   o.kind = "ok" /\ o.generated_kw > 0}
       /\ last.out.Fraction = <<Len(last.out.Hours), HoursPerDay>>
       /\ Len(last.out.Hours) <= HoursPerDay

\* a day with hours that generate, an hour computed with 0 kW and a failed hour
C5_Witness ==
    /\ last.op = "daily_kw"
    /\ Len(last.out.Hours) > 0
    /\ \E i, j \in HourRange :
          /\ HourOut(last.day, last.site, i).kind = "ok"
          /\ HourOut(last.day, last.site, i).generated_kw = 0
          /\ HourOut(last.day, last.site, j).kind = "raise"

\* C6  Invalid input fails fast: daily_kw with a day outside 1..365,
\* monthly_kw with a month outside 1..12, and daily_kw, monthly_kw or
\* yearly_kw with a negative efficiency constant end in an error and return
\* no summary.
C6_InvalidInputFailsFast ==
    /\ (last.op = "daily_kw" /\ last.day \notin 1..DaysPerYear) => last.kind = "raise"
    /\ (last.op = "monthly_kw" /\ last.month \notin 1..MonthsPerYear) =>
          last.kind = "raise"
    /\ (last.op \in {"daily_kw", "monthly_kw", "yearly_kw"}
          /\ last.site.constant_eff < 0) => last.kind = "raise"

\* C7  Error propagation: a non-numeric parameter is not a numeric domain
\* error, so a call of daily_kw, monthly_kw or yearly_kw with one ends in an
\* error at the caller and returns no summary.
C7_NonNumericSurfaces ==
    (last.op \in {"daily_kw", "monthly_kw", "yearly_kw"} /\ ~last.site.numeric) =>
       last.kind = "raise"

\* C8  Read-only inputs: after Calculation.daily_kw, calc_month or calc_year
\* returns, every field of the base moment object the caller passed has the
\* value it had before the call.
C8_InputsUnchanged ==
    last.op \in {"calc_daily_kw", "calc_month", "calc_year"} =>
       moment_data = last.before

\* the orders in which the elements 0..n of a reduction are taken: as
\* indexed, reversed, rotated by half, and the even positions before the odd
NumOrders == 4

OrderOf(c, n) ==
    [i \in 0..n |->
        CASE c = 1 -> i
          [] c = 2 -> n - i
          [] c = 3 -> (i + ((n + 1) \div 2)) % (n + 1)
          [] OTHER -> IF 2 * i <= n THEN 2 * i ELSE 2 * (i - (n \div 2)) - 1]

\* the sum, and for each best record the greater Kw, on equal Kw the one of
\* the earlier index
CombineMonth(a, b) ==
    [TotalKw |-> float_add(a.TotalKw, b.TotalKw),
     BestDay |-> IF a.BestDay.Kw > b.BestDay.Kw THEN a.BestDay
                 ELSE IF b.BestDay.Kw > a.BestDay.Kw THEN b.BestDay
                 ELSE IF a.BestDay.Day <= b.BestDay.Day THEN a.BestDay ELSE b.BestDay,
     BestHour |-> IF a.BestHour.Kw > b.BestHour.Kw THEN a.BestHour
                  ELSE IF b.BestHour.Kw > a.BestHour.Kw THEN b.BestHour
                  ELSE IF a.BestHour.Day <= b.BestHour.Day THEN a.BestHour
                  ELSE b.BestHour]

\* what day d of a month, with daily summary dd, brings to the reduction
MonthPart(d, dd) ==
    [TotalKw |-> dd.TotalKw,
     BestDay |-> [Day |-> d, Kw |-> dd.TotalKw],
     BestHour |-> [Day |-> d, Hour |-> dd.HourMax, Kw |-> dd.MaxKw]]

\* the records before the first day, as element 0 of the reduction
MonthSeed ==
    [TotalKw |-> 0, BestDay |-> [Day |-> 0, Kw |-> 0],
     BestHour |-> [Day |-> 0, Hour |-> 0, Kw |-> 0]]

RECURSIVE ReduceMonth(_, _, _)
\* the elements p[lo..hi] reduced as a balanced tree of partial results
ReduceMonth(p, lo, hi) ==
    IF lo = hi THEN p[lo]
    ELSE \* CombineMonth of the two halves
         CHOOSE r \in {CombineMonth(a, b) :
                          a \in {ReduceMonth(p, lo, (lo + hi) \div 2)},
                          b \in {ReduceMonth(p, ((lo + hi) \div 2) + 1, hi)}} : TRUE

CombineYear(a, b) ==
    [TotalKw |-> float_add(a.TotalKw, b.TotalKw),
     BestMonth |-> IF a.BestMonth.Kw > b.BestMonth.Kw THEN a.BestMonth
                   ELSE IF b.BestMonth.Kw > a.BestMonth.Kw THEN b.BestMonth
                   ELSE IF a.BestMonth.Month <= b.BestMonth.Month THEN a.BestMonth
                   ELSE b.BestMonth,
     BestDay |-> IF a.BestDay.Kw > b.BestDay.Kw THEN a.BestDay
                 ELSE IF b.BestDay.Kw > a.BestDay.Kw THEN b.BestDay
                 ELSE IF a.BestDay.Month <= b.BestDay.Month THEN a.BestDay
                 ELSE b.BestDay,
     BestHour |-> IF a.BestHour.Kw > b.BestHour.Kw THEN a.BestHour
                  ELSE IF b.BestHour.Kw > a.BestHour.Kw THEN b.BestHour
                  ELSE IF a.BestHour.Month <= b.BestHour.Month THEN a.BestHour
                  ELSE b.BestHour]

YearPart(m, md) ==
    [TotalKw |-> md.TotalKw,
     BestMonth |-> [Month |-> m, Kw |-> md.TotalKw],
     BestDay |-> [Month |-> m, Day |-> md.BestDay.Day, Kw |-> md.BestDay.Kw],
     BestHour |-> [Month |-> m, Day |-> md.BestHour.Day,
                   Hour |-> md.BestHour.Hour, Kw |-> md.BestHour.Kw]]

YearSeed ==
    [TotalKw |-> 0, BestMonth |-> [Month |-> 0, Kw |-> 0],
     BestDay |-> [Month |-> 0, Day |-> 0, Kw |-> 0],
     BestHour |-> [Month |-> 0, Day |-> 0, Hour |-> 0, Kw |-> 0]]

RECURSIVE ReduceYear(_, _, _)
ReduceYear(p, lo, hi) ==
    IF lo = hi THEN p[lo]
    ELSE CHOOSE r \in {CombineYear(a, b) :
                          a \in {ReduceYear(p, lo, (lo + hi) \div 2)},
                          b \in {ReduceYear(p, ((lo + hi) \div 2) + 1, hi)}} : TRUE

SameMonth(r, out) ==
    /\ r.TotalKw = out.TotalKw
    /\ r.BestDay = out.BestDay
    /\ r.BestHour = out.BestHour

SameYear(r, out) ==
    /\ r.TotalKw = out.TotalKw
    /\ r.BestMonth = out.BestMonth
    /\ r.BestDay = out.BestDay
    /\ r.BestHour = out.BestHour

\* C9 as stated: the days of a month, and the months of the year, taken in
\* any order and reduced by a sum and by the maximum with the earliest index
\* on a tie give the totals and best records that monthly_kw and yearly_kw
\* return.
C9_OrderIndependence ==
    /\ (last.op = "monthly_kw" /\ last.kind = "ok" /\ ValidSite(last.site)) =>
          \A n \in {days_in_month[last.month]} :
             \A p \in {[d \in 1..n |->
                          MonthPart(d, daily_kw(DayOfYear(last.month, d), last.site))]} :
                \A c \in 1..NumOrders :
                   SameMonth(ReduceMonth([i \in 1..n |-> p[OrderOf(c, n - 1)[i - 1] + 1]],
                                         1, n),
                             last.out)
    /\ (last.op = "yearly_kw" /\ ValidSite(last.site)) =>
          \A p \in {[m \in 1..MonthsPerYear |->
                       YearPart(m, monthly_kw(last.site, m))]} :
             \A c \in 1..NumOrders :
                SameYear(ReduceYear([i \in 1..MonthsPerYear |->
                                        p[OrderOf(c, MonthsPerYear - 1)[i - 1] + 1]],
                                    1, MonthsPerYear),
                         last.out)

SameBestMonth(r, out) ==
    /\ r.BestDay = out.BestDay
    /\ r.BestHour = out.BestHour

SameBestYear(r, out) ==
    /\ r.BestMonth = out.BestMonth
    /\ r.BestDay = out.BestDay
    /\ r.BestHour = out.BestHour

\* C9 amended: the reduction takes the initial records (index 0, Kw 0) as
\* its element 0 beside the days 1..n of the month, or the months 1..12: in
\* any order, the maximum with the earliest index on a tie gives the best
\* records that monthly_kw and yearly_kw return; the totals are those of the
\* float sum taken in the order of the loop.
C9_SeededOrderIndependence ==
    /\ (last.op = "monthly_kw" /\ last.kind = "ok") =>
          \A n \in {days_in_month[last.month]} :
             \A p \in {[d \in 0..n |->
                          IF d = 0 THEN MonthSeed
                          ELSE MonthPart(d, daily_kw(DayOfYear(last.month, d),
                                                     last.site))]} :
                /\ \A c \in 1..NumOrders :
                      SameBestMonth(ReduceMonth([i \in 0..n |-> p[OrderOf(c, n)[i]]],
                                                0, n),
                                    last.out)
                /\ last.out.TotalKw = SumFn([d \in 0..n |-> p[d].TotalKw], 0, n)
    /\ last.op = "yearly_kw" =>
          \A p \in {[m \in 0..MonthsPerYear |->
                       IF m = 0 THEN YearSeed
                       ELSE YearPart(m, monthly_kw(last.site, m))]} :
             /\ \A c \in 1..NumOrders :
                   SameBestYear(ReduceYear([i \in 0..MonthsPerYear |->
                                              p[OrderOf(c, MonthsPerYear)[i]]],
                                           0, MonthsPerYear),
                                last.out)
             /\ last.out.TotalKw =
                   SumFn([m \in 0..MonthsPerYear |-> p[m].TotalKw], 0, MonthsPerYear)

\* a year whose best day is after January and is tied by the best day of a
\* later month
C9_Witness ==
    /\ last.op = "yearly_kw"
    /\ last.out.TotalKw > 0
    /\ last.out.BestDay.Month >= 2
    /\ \E m \in 1..MonthsPerYear :
          /\ m > last.out.BestDay.Month
          /\ monthly_kw(last.site, m).BestDay.Kw = last.out.BestDay.Kw

\* C10  Azimuth branch: the azimuth is 360 - azimuth_base when the hour
\* angle is > 0 and azimuth_base when it is <= 0 (at hour angle 0, the
\* morning branch); where the two branches differ (azimuth_base # 180) the
\* azimuth is 360 - azimuth_base exactly when the hour angle is > 0.
C10_AzimuthBranch ==
    (last.op = "MomentData" /\ last.kind = "ok") =>
       \A hra4 \in {60 * (last.hour - 12) + 4 * (last.longitude - 15 * 2)
                      + last.sky.eot} :
          /\ last.out.hra4 = hra4
          /\ last.out.azimuth_base = last.sky.az_base
          /\ hra4 > 0 => last.out.az_ang = 360 - last.out.azimuth_base
          /\ hra4 <= 0 => last.out.az_ang = last.out.azimuth_base
          /\ last.out.azimuth_base # 180 =>
                (last.out.az_ang = 360 - last.out.azimuth_base <=> hra4 > 0)

\* hour angle 0 with the two branches apart
C10_Witness ==
    /\ last.op = "MomentData"
    /\ last.kind = "ok"
    /\ last.out.hra4 = 0
    /\ last.out.azimuth_base = 90
    /\ last.out.az_ang = 90

\* C11  Failure conditions of the moment computation: with numeric
\* parameters the computation fails only when the inverse-sine argument is
\* outside [-1, 1], when cos(elevation) is 0 or when the zenith is 96.07995;
\* on every other input, a zenith above 96.07995 included, it completes with
\* s_module = max(0, s_incident * fraction).
C11_FailsOnlyOnDomainErrors ==
    (last.op = "MomentData" /\ last.numeric) =>
       IF \/ ~last.sky.asin_ok
          \/ last.sky.ev \in {RightAngle, -RightAngle}
          \/ RightAngle - last.sky.ev = ZenithSingular
       THEN last.kind = "raise"
       ELSE /\ last.kind = "ok"
            /\ last.out.s_module = Max(0, last.sky.s_incident * last.sky.fraction)

\* C12  Daily maximum: after the loop of daily_kw, MaxKw is the largest
\* generated_kw of the hours that were computed, or 0 when no hour was
\* computed or none is positive; HourMax is the earliest hour with that
\* maximum when it is positive, and the initial 0 otherwise.
C12_DailyMaximum ==
    last.op = "daily_kw" =>
       \A out \in {[i \in HourRange |-> HourOut(last.day, last.site, i)]} :
          \A kw \in {[i \in HourRange |->
                        IF out[i].kind = "ok" THEN out[i].generated_kw ELSE 0]} :
             /\ last.out.MaxKw = Max(0, MaxFn(kw, HourRange))
             /\ IF MaxFn(kw, HourRange) > 0
                THEN last.out.HourMax =
                        MinOf({i \in HourRange : kw[i] = MaxFn(kw, HourRange)})
                ELSE last.out.HourMax = 0

\* the maximum is reached after hour 0, at an hour that succeeded, and again
\* at a later hour
C12_Witness ==
    /\ last.op = "daily_kw"
    /\ last.out.MaxKw > 0
    /\ last.out.HourMax > 0
    /\ \E i \in HourRange :
          /\ i > last.out.HourMax
          /\ HourOut(last.day, last.site, i).kind = "ok"
          /\ HourOut(last.day, last.site, i).generated_kw = last.out.MaxKw
    /\ \E j \in HourRange :
          /\ j < last.out.HourMax
          /\ HourOut(last.day, last.site, j).kind = "ok"
          /\ HourOut(last.day, last.site, j).generated_kw > 0

\* the parameters that a base moment object carries
SiteOfObject(m) ==
    [w |-> m.w, gmt |-> m.gmt, longitude |-> m.longitude, numeric |-> m.numeric,
     constant_eff |-> m.constant_eff]

Abs(x) == IF x >= 0 THEN x ELSE 0 - x

\* the calls of monthly_kw(m) are the days after the first CumDays[m] days of
\* the year, in ascending order, and the result is that of adding their totals
MonthCoverage ==
    (last.op = "monthly_kw" /\ last.kind = "ok") =>
       \A t \in {monthly_days(last.month)} :
          /\ Len(t) = CumDays[last.month + 1] - CumDays[last.month]
          /\ \A k \in 1..Len(t) : t[k] = CumDays[last.month] + k
          /\ last.out.TotalKw =
                SumFn([k \in 1..Len(t) |-> daily_kw(t[k], last.site).TotalKw],
                      1, Len(t))

\* the calls of yearly_kw are the days 1..365, each once, in ascending order
YearCoverage ==
    last.op = "yearly_kw" =>
       /\ Len(yearly_days) = DaysPerYear
       /\ \A k \in 1..DaysPerYear : yearly_days[k] = k
       /\ yearly_days = calc_year_days

\* C13 as stated: monthly_kw(m) calls daily_kw on the days base(m)+1 ..
\* base(m)+days_in_month[m] in ascending order, yearly_kw on the days 1..365
\* each once in ascending order, and the total of yearly_kw equals the total
\* of Calculation.calc_year for the same parameters.
C13_CalendarCoverage ==
    /\ MonthCoverage
    /\ YearCoverage
    /\ last.op = "calc_year" =>
          yearly_kw(SiteOfObject(last.before)).TotalKw = last.out

\* C13 amended: the calls are as stated; Calculation.daily_kw gives for each
\* day the total of daily_kw, calc_year adds the 365 totals in one float sum
\* and yearly_kw adds them month by month and then adds the twelve sums, so
\* the two totals are equal where no addition rounds and otherwise differ by
\* no more than the roundings of the additions.
C13_CalendarCoverageUpToRounding ==
    /\ MonthCoverage
    /\ YearCoverage
    /\ last.op = "calc_year" =>
          \A s \in {SiteOfObject(last.before)} :
             \A t \in {[d \in 1..DaysPerYear |-> daily_kw(d, s).TotalKw]} :
                \A y \in {yearly_kw(s).TotalKw} :
                   /\ \A d \in 1..DaysPerYear :
                         calc_daily_kw([last.before EXCEPT !.day = d]) = t[d]
                   /\ last.out = SumFn(t, 1, DaysPerYear)
                   /\ y = SumFn([m \in 1..MonthsPerYear |->
                                   SumFn(t, CumDays[m] + 1, CumDays[m + 1])],
                                1, MonthsPerYear)
                   /\ Abs(last.out) < Pow(2, MantissaBits) => y = last.out
                   /\ 2 * Abs(y - last.out) <=
                         (2 * DaysPerYear + MonthsPerYear)
                            * Ulp(Max(Abs(y), Abs(last.out)))

\* a year whose total is beyond the exact range of the float sums, added flat
\* by calc_year and by month by yearly_kw with different roundings
C13_Witness ==
    /\ last.op = "calc_year"
    /\ last.out >= Pow(2, MantissaBits)
    /\ yearly_kw(SiteOfObject(last.before)).TotalKw # last.out

\* the month that day k of the year is in
MonthOfDay(k) == CHOOSE m \in 1..MonthsPerYear : CumDays[m] < k /\ k <= CumDays[m + 1]

\* the hours of the year, numbered 0..8759 from hour 0 of day 1
YearHours == 0..(DaysPerYear * HoursPerDay - 1)

DayOfHour(h) == (h \div HoursPerDay) + 1

\* the daily totals of the days 1..365 of a site
YearTotals(s) == [k \in 1..DaysPerYear |-> daily_kw(k, s).TotalKw]

\* the generated_kw of the hours of the year of a site, 0 for a failed hour
YearValues(s) ==
    [h \in YearHours |->
        CHOOSE v \in {IF o.kind = "ok" THEN o.generated_kw ELSE 0 :
                        o \in {HourOut(DayOfHour(h), s, h % HoursPerDay)}} : TRUE]

\* the record of day k of the year holding kw
DayRecord(k, kw) ==
    [Month |-> MonthOfDay(k), Day |-> k - CumDays[MonthOfDay(k)], Kw |-> kw]

\* the record of hour h of the year holding kw
HourRecord(h, kw) ==
    [Month |-> MonthOfDay(DayOfHour(h)),
     Day |-> DayOfHour(h) - CumDays[MonthOfDay(DayOfHour(h))],
     Hour |-> h % HoursPerDay, Kw |-> kw]

\* C14 as stated: the Best Day of yearly_kw holds the largest daily total of
\* the 365 days with the month and day of the earliest day that has it, the
\* Best Hour the largest hourly value of the 8760 hours with the month, day
\* and hour of the earliest hour that has it.
C14_YearlyBestIsFlatMax ==
    (last.op = "yearly_kw" /\ ValidSite(last.site)) =>
       /\ \A t \in {YearTotals(last.site)} :
             \A mx \in {MaxFn(t, 1..DaysPerYear)} :
                last.out.BestDay =
                   DayRecord(MinOf({k \in 1..DaysPerYear : t[k] = mx}), mx)
       /\ \A v \in {YearValues(last.site)} :
             \A mx \in {MaxFn(v, YearHours)} :
                last.out.BestHour = HourRecord(MinOf({h \in YearHours : v[h] = mx}), mx)

\* C14 amended: when some day of the year has a positive total the Best Day
\* of yearly_kw holds the largest daily total with the month and day of the
\* earliest day that has it, and otherwise Month 0, Day 0, Kw 0; when some
\* hour has a positive value the Best Hour holds the largest hourly value
\* with the month, day and hour of the earliest hour that has it, and
\* otherwise Month 0, Day 0, Hour 0, Kw 0.
C14_YearlyBestIsFlatPositiveMax ==
    last.op = "yearly_kw" =>
       /\ \A t \in {YearTotals(last.site)} :
             \A mx \in {MaxFn(t, 1..DaysPerYear)} :
                last.out.BestDay =
                   IF mx > 0
                   THEN DayRecord(MinOf({k \in 1..DaysPerYear : t[k] = mx}), mx)
                   ELSE [Month |-> 0, Day |-> 0, Kw |-> 0]
       /\ \A v \in {YearValues(last.site)} :
             \A mx \in {MaxFn(v, YearHours)} :
                last.out.BestHour =
                   IF mx > 0
                   THEN HourRecord(MinOf({h \in YearHours : v[h] = mx}), mx)
                   ELSE [Month |-> 0, Day |-> 0, Hour |-> 0, Kw |-> 0]

\* the best day and the best hour are found after January, the best hour
\* after hour 0, and a later month has an hour as good
C14_Witness ==
    /\ last.op = "yearly_kw"
    /\ last.out.BestDay.Month >= 2
    /\ last.out.BestDay.Kw > 0
    /\ last.out.BestHour.Month >= 2
    /\ last.out.BestHour.Hour > 0
    /\ \E m \in 1..MonthsPerYear :
          /\ m > last.out.BestHour.Month
          /\ monthly_kw(last.site, m).BestHour.Kw = last.out.BestHour.Kw

====
